---- MODULE Spec2Model ----
(***************************************************************************)
(* Model of compounding-calc.py: the command line program main(), its      *)
(* input validation, the interactive prompt loops of get_user_input(), and *)
(* the growth formula calculate_compound_growth() together with the        *)
(* reporting loops of display_results().                                   *)
(*                                                                         *)
(* Numbers.  Python floats are modelled as exact rationals <<num, den>>    *)
(* in lowest terms with den > 0.  Rounding, overflow, infinities and NaN   *)
(* of IEEE doubles are outside the model; division by a zero float raises  *)
(* ZeroDivisionError exactly as in Python.  Table rendering (tabulate and  *)
(* the f-string formatting) is not modelled: rows hold the numbers that    *)
(* are formatted.                                                          *)
(***************************************************************************)
EXTENDS Integers, Sequences, FiniteSets, TLC

\* ------------------------------------------------------------------ bounds
MaxPrincipal == 1
MaxCompounds == 2
MaxYears == 2
MaxContribution == 1

\* Percent values offered for the rate and the inflation (flags and entries).
RatePercents == {-100, 0, 100}
InflationPercents == {-50, 0, 50, 150, 10000}

\* Text is a sequence of one-character strings.
Start == <<"s", "t", "a", "r", "t">>
End == <<"e", "n", "d">>

\* ------------------------------------------------------------ exact numbers
Abs(i) == IF i < 0 THEN -i ELSE i

RECURSIVE GCD(_, _)
GCD(a, b) == IF b = 0 THEN a ELSE GCD(b, a % b)

Norm(n, d) ==
    LET g == GCD(Abs(n), Abs(d))
        s == IF d < 0 THEN -1 ELSE 1
    IN  <<s * (n \div g), s * (d \div g)>>

FromInt(i) == <<i, 1>>
Zero == FromInt(0)
One == FromInt(1)

RMul(a, b) ==
    LET g1 == GCD(Abs(a[1]), b[2])
        g2 == GCD(Abs(b[1]), a[2])
    IN  Norm((a[1] \div g1) * (b[1] \div g2), (a[2] \div g2) * (b[2] \div g1))

\* only used with b # 0; a zero divisor raises before the division
RDiv(a, b) == RMul(a, Norm(b[2], b[1]))

RAdd(a, b) ==
    LET g == GCD(a[2], b[2])
        l == (a[2] \div g) * b[2]
    IN  Norm(a[1] * (l \div a[2]) + b[1] * (l \div b[2]), l)

RSub(a, b) == RAdd(a, <<-b[1], b[2]>>)

RLt(a, b) ==
    LET g == GCD(a[2], b[2])
    IN  a[1] * (b[2] \div g) < b[1] * (a[2] \div g)

RLe(a, b) == ~RLt(b, a)

\* x ** k for an integer k >= 0 (x ** 0 = 1, also for x = 0)
RECURSIVE RPow(_, _)
RPow(x, k) == IF k = 0 THEN One ELSE RMul(x, RPow(x, k - 1))

\* ------------------------------------------------------------- validation
MsgPrincipal == "Principal cannot be negative"
MsgRate == "Interest rate cannot be negative"
MsgCompounds == "Compounds per year must be greater than 0"
MsgYears == "Years must be greater than 0"
MsgContributions == "Annual contributions cannot be negative"
MsgInflation == "Inflation rate must be between 0 and 100%"

\* errors.append(msg) when the condition holds
AppendIf(errs, cond, msg) == IF cond THEN Append(errs, msg) ELSE errs

\* Variant: validation that stops at the first violated constraint.
FailFastErrors(p, r, n, t, c, i) ==
    IF RLt(p, Zero) THEN <<MsgPrincipal>>
    ELSE IF RLt(r, Zero) THEN <<MsgRate>>
    ELSE IF n <= 0 THEN <<MsgCompounds>>
    ELSE IF t <= 0 THEN <<MsgYears>>
    ELSE IF RLt(c, Zero) THEN <<MsgContributions>>
    ELSE IF RLt(i, Zero) \/ RLe(FromInt(100), i) THEN <<MsgInflation>>
    ELSE <<>>

\* The list `errors` built by validate_input (lines 8-21).
ValidationErrors(p, r, n, t, c, i) ==
    LET e1 == AppendIf(<<>>, RLt(p, Zero), MsgPrincipal)
        e2 == AppendIf(e1, RLt(r, Zero), MsgRate)
        e3 == AppendIf(e2, n <= 0, MsgCompounds)
        e4 == AppendIf(e3, t <= 0, MsgYears)
        e5 == AppendIf(e4, RLt(c, Zero), MsgContributions)
        e6 == AppendIf(e5, RLt(i, Zero) \/ RLe(FromInt(100), i), MsgInflation)
    IN  e6

\* validate_input's return value (lines 23-28)
validate_input(errs) == errs = <<>>

\* ---------------------------------------------------------- growth formula
\* calculate_compound_growth (lines 47-67).  raised = TRUE models the
\* ZeroDivisionError of line 57 / 59 when effective_annual_rate is 0.
\* Variants of line 48: n + t periods, and the periods of a single year.
PeriodsSum(n, t) == n + t

PeriodsOfOneYear(n, t) == n

total_periods(n, t) == n * t

\* Variant of line 47: the annual rate applied to every period.
RateUndivided(r, n) == r

periodic_rate(r, n) == RDiv(r, FromInt(n))

AnnuityFactor(timing, e) == IF timing = Start THEN RAdd(One, e) ELSE One

calculate_compound_growth(P, r, n, t, pmt, infl, timing) ==
    LET growth == RAdd(One, periodic_rate(r, n))
        principal_future_value == RMul(P, RPow(growth, total_periods(n, t)))
        contributes == RLt(Zero, pmt) /\ t > 0
        effective_annual_rate == RSub(RPow(growth, n), One)
        divides_by_zero == contributes /\ effective_annual_rate = Zero
        contribution_future_value ==
            IF contributes
            THEN RMul(RMul(pmt,
                           RDiv(RSub(RPow(RAdd(One, effective_annual_rate), t), One),
                                effective_annual_rate)),
                      AnnuityFactor(timing, effective_annual_rate))
            ELSE Zero
        nominal_balance == RAdd(principal_future_value, contribution_future_value)
        inflation_adjusted_balance ==
            IF RLt(Zero, infl) /\ t > 0
            THEN RDiv(nominal_balance, RPow(RAdd(One, infl), t))
            ELSE nominal_balance
    IN  IF divides_by_zero
        THEN [raised |-> TRUE, nominal |-> Zero, real |-> Zero]
        ELSE [raised |-> FALSE, nominal |-> nominal_balance,
              real |-> inflation_adjusted_balance]

\* ------------------------------------------------ real value of contributions
\* display_results, summary part (lines 160-169): the for loop over
\* range(1, years + 1), unrolled from the last year down.
\* Variant of lines 163-166: START discounting for either timing.
YearsAgoStart(timing, y) == y

years_ago(timing, y) == IF timing = Start THEN y ELSE y - 1

RECURSIVE SummaryLoop(_, _, _, _)
SummaryLoop(c, infl, timing, y) ==
    IF y = 0 THEN Zero
    ELSE RAdd(SummaryLoop(c, infl, timing, y - 1),
              RDiv(c, RPow(RAdd(One, infl), years_ago(timing, y))))

total_real_contributions(P, c, infl, timing, t) ==
    IF RLt(Zero, c) /\ t > 0 THEN RAdd(P, SummaryLoop(c, infl, timing, t)) ELSE P

\* display_results, breakdown part (lines 215-222): the accumulator
\* total_real_contrib carried through range(1, year + 1).
RECURSIVE BreakdownLoop(_, _, _, _, _, _)
BreakdownLoop(acc, c, infl, timing, y, year) ==
    IF y > year THEN acc
    ELSE BreakdownLoop(RAdd(acc, RDiv(c, RPow(RAdd(One, infl), years_ago(timing, y)))),
                       c, infl, timing, y + 1, year)

total_real_contrib(P, c, infl, timing, year) ==
    IF RLt(Zero, c) /\ year > 0 THEN BreakdownLoop(P, c, infl, timing, 1, year) ELSE P

\* ------------------------------------------------------------------ state
VARIABLES
    pc,          \* position in main(): "main", "prompt_<field>", "validate",
                 \* "display", "breakdown", and the ends "done", "exit1", "crash"
    args,        \* argparse namespace; <<>> is None, <<v>> a given flag
    locals,      \* main()'s variables principal .. contribution_timing
    prompted,    \* get_user_input()'s variables of the same names
    asked,       \* the prompts that have been printed at least once
    lastEntry,   \* what the last input() call returned
    errors,      \* validate_input()'s list of messages
    summary,     \* numbers of the summary table
    breakdown,   \* rows of the year-by-year table
    year         \* loop variable of the breakdown loop

vars == <<pc, args, locals, prompted, asked, lastEntry, errors, summary, breakdown, year>>

None == <<>>
IsNone(x) == x = None
Val(x) == x[1]

Unset ==
    [principal |-> None, rate |-> None, compounds_per_year |-> None, years |-> None,
     contributions |-> None, inflation |-> None, contribution_timing |-> None]

Percent(v) == RDiv(FromInt(v), FromInt(100))

\* ------------------------------------------------------------ command line
\* Flags argparse can deliver (lines 253-260); -c, -i and --timing have defaults.
OptionalFlag(S) == {None} \cup {<<v>> : v \in S}

\* Runs with all four required flags: every combination of values.
CompleteArgs ==
    [principal : {<<v>> : v \in -1 .. MaxPrincipal},
     rate : {<<v>> : v \in RatePercents},
     compounds : {<<v>> : v \in 0 .. MaxCompounds},
     years : {<<v>> : v \in 0 .. MaxYears},
     contributions : -1 .. MaxContribution,
     inflation : InflationPercents,
     timing : {Start, End}]

\* Runs with a required flag missing: every subset of the required flags, the
\* flags that are given carrying one value each, none of them a default.
PartialArgs ==
    [principal : OptionalFlag({MaxPrincipal}),
     rate : OptionalFlag({100}),
     compounds : OptionalFlag({MaxCompounds}),
     years : OptionalFlag({MaxYears}),
     contributions : {MaxContribution},
     inflation : {50},
     timing : {Start}]

ArgSpace == CompleteArgs \cup PartialArgs

Init ==
    /\ pc = "main"
    /\ args \in ArgSpace
    /\ locals = Unset
    /\ prompted = Unset
    /\ asked = {}
    /\ lastEntry = None
    /\ errors = <<>>
    /\ summary = None
    /\ breakdown = <<>>
    /\ year = 0

\* the condition of line 264
AllGiven(a) ==
    /\ ~IsNone(a.principal)
    /\ ~IsNone(a.rate)
    /\ ~IsNone(a.compounds)
    /\ ~IsNone(a.years)

\* lines 265-271
FromFlags(a) ==
    [principal |-> FromInt(Val(a.principal)),
     rate |-> Percent(Val(a.rate)),
     compounds_per_year |-> Val(a.compounds),
     years |-> Val(a.years),
     contributions |-> FromInt(a.contributions),
     inflation |-> Percent(a.inflation),
     contribution_timing |-> a.timing]

UseFlags ==
    /\ pc = "main"
    /\ AllGiven(args)
    /\ locals' = FromFlags(args)
    /\ pc' = "validate"
    /\ UNCHANGED <<args, prompted, asked, lastEntry, errors, summary, breakdown, year>>

\* line 273, up to the first prompt of get_user_input (line 76)
EnterInteractive ==
    /\ pc = "main"
    /\ ~AllGiven(args)
    /\ pc' = "prompt_principal"
    /\ asked' = {"prompt_principal"}
    /\ UNCHANGED <<args, locals, prompted, lastEntry, errors, summary, breakdown, year>>

\* ------------------------------------------------------ interactive prompts
\* What the user may type at a prompt.  "number" entries carry the number
\* typed; "malformed" is text Python's float() and int() reject; "empty" is
\* an empty or blank line.
Malformed == [kind |-> "malformed", val |-> Zero]
Empty == [kind |-> "empty", val |-> Zero]
Number(v) == [kind |-> "number", val |-> v]
Typed(S) == {Number(FromInt(v)) : v \in S}
OneAndAHalf == Number(<<3, 2>>)

PrincipalEntries == {Malformed} \cup Typed(-1 .. MaxPrincipal)
RateEntries == {Malformed} \cup Typed(RatePercents)
CompoundsEntries == {Malformed, OneAndAHalf} \cup Typed(0 .. MaxCompounds)
YearsEntries == {Malformed, OneAndAHalf} \cup Typed(0 .. MaxYears)
ContributionsEntries == {Malformed} \cup Typed(-1 .. MaxContribution)
InflationEntries == {Malformed, Empty} \cup Typed(InflationPercents)

\* float(text): ValueError unless the text is a number
FloatRaises(e) == e.kind # "number"

\* int(text): ValueError unless the text is a whole number
\* (variant: the entry read with float(), which accepts 1.5)
IntRaisesAsFloat(e) == e.kind # "number"

IntRaises(e) == e.kind # "number" \/ e.val[2] # 1
IntOf(e) == e.val[1]

\* One pass through a `while True` prompt loop: the variable is assigned when
\* the entry parses, the loop is left when the value is also accepted.
LoopPass(field, next, raises, value, rejected) ==
    /\ prompted' = IF raises THEN prompted ELSE [prompted EXCEPT ![field] = value]
    /\ pc' = IF raises \/ rejected THEN pc ELSE next
    /\ asked' = IF raises \/ rejected THEN asked
                ELSE asked \cup {next}
    /\ UNCHANGED <<args, locals, errors, summary, breakdown, year>>

\* lines 74-82
PromptPrincipal ==
    /\ pc = "prompt_principal"
    /\ \E e \in PrincipalEntries :
        /\ lastEntry' = e
        /\ LoopPass("principal", "prompt_rate", FloatRaises(e), e.val, RLt(e.val, Zero))

\* lines 84-92
PromptRate ==
    /\ pc = "prompt_rate"
    /\ \E e \in RateEntries :
        /\ lastEntry' = e
        /\ LoopPass("rate", "prompt_compounds", FloatRaises(e),
                    RDiv(e.val, FromInt(100)), RLt(RDiv(e.val, FromInt(100)), Zero))

\* lines 94-102
PromptCompounds ==
    /\ pc = "prompt_compounds"
    /\ \E e \in CompoundsEntries :
        /\ lastEntry' = e
        /\ LoopPass("compounds_per_year", "prompt_years", IntRaises(e),
                    IntOf(e), IntOf(e) <= 0)

\* lines 104-112
PromptYears ==
    /\ pc = "prompt_years"
    /\ \E e \in YearsEntries :
        /\ lastEntry' = e
        /\ LoopPass("years", "prompt_contributions", IntRaises(e), IntOf(e), IntOf(e) <= 0)

\* lines 114-122
PromptContributions ==
    /\ pc = "prompt_contributions"
    /\ \E e \in ContributionsEntries :
        /\ lastEntry' = e
        /\ LoopPass("contributions", "prompt_inflation", FloatRaises(e),
                    e.val, RLt(e.val, Zero))

\* lines 124-137: a blank line and a ValueError both set 0.0 and leave the loop
\* (variant: only the lower limit is checked)
InflationRejectedBelow(v) == RLt(v, Zero)

InflationRejected(v) == RLt(v, Zero) \/ RLe(One, v)

PromptInflation ==
    /\ pc = "prompt_inflation"
    /\ \E e \in InflationEntries :
        /\ lastEntry' = e
        /\ IF e.kind = "empty" \/ FloatRaises(e)
           THEN LoopPass("inflation", "prompt_timing", FALSE, Zero, FALSE)
           ELSE LoopPass("inflation", "prompt_timing", FALSE,
                         RDiv(e.val, FromInt(100)),
                         InflationRejected(RDiv(e.val, FromInt(100))))

\* Text typed at the timing prompt, one character per element.
TimingEntries ==
    { <<>>,
      <<" ">>,
      <<"e", "n", "d">>,
      <<" ", "E", "n", "d", " ">>,
      <<"S", "T", "A", "R", "T">>,
      <<"s", "t", "a", "r", "t", " ">>,
      <<"n", "o", "w">> }

\* str.strip() for blanks
RECURSIVE LStrip(_)
LStrip(s) == IF s # <<>> /\ Head(s) = " " THEN LStrip(Tail(s)) ELSE s

RECURSIVE RStrip(_)
RStrip(s) ==
    IF s # <<>> /\ s[Len(s)] = " " THEN RStrip(SubSeq(s, 1, Len(s) - 1)) ELSE s

Strip(s) == RStrip(LStrip(s))

\* str.lower() on the letters that occur
LowerChar(c) ==
    CASE c = "E" -> "e" [] c = "N" -> "n" [] c = "D" -> "d" [] c = "S" -> "s"
      [] c = "T" -> "t" [] c = "A" -> "a" [] c = "R" -> "r" [] OTHER -> c

Lower(s) == [k \in 1 .. Len(s) |-> LowerChar(s[k])]

\* lines 139-145
TimingOf(text) ==
    LET timing == Lower(Strip(text))
    IN  IF timing = <<>> THEN End ELSE timing

\* The tuple returned in line 147 and unpacked in line 273: main() takes all
\* seven values from get_user_input, whatever flags were given.  (Variant: the
\* optional flags override what was prompted.)
KeepGivenFlags(p, a) ==
    [p EXCEPT !.contributions = FromInt(a.contributions),
              !.inflation = Percent(a.inflation),
              !.contribution_timing = a.timing]

ReturnedTuple(p, a) == p

\* lines 139-147 and the assignment of the returned tuple in line 273
PromptTiming ==
    /\ pc = "prompt_timing"
    /\ \E e \in TimingEntries :
        /\ lastEntry' = e
        /\ prompted' = [prompted EXCEPT !.contribution_timing = TimingOf(e)]
        /\ IF TimingOf(e) \in {Start, End}
           THEN /\ locals' = ReturnedTuple(prompted', args)
                /\ pc' = "validate"
           ELSE UNCHANGED <<locals, pc>>
        /\ UNCHANGED <<args, asked, errors, summary, breakdown, year>>

\* --------------------------------------------------- validation and display
\* lines 275-276
Validate ==
    /\ pc = "validate"
    /\ errors' = ValidationErrors(locals.principal, locals.rate, locals.compounds_per_year,
                                  locals.years, locals.contributions, locals.inflation)
    /\ pc' = IF validate_input(errors') THEN "display" ELSE "exit1"
    /\ UNCHANGED <<args, locals, prompted, asked, lastEntry, summary, breakdown, year>>

Growth(t) ==
    calculate_compound_growth(locals.principal, locals.rate, locals.compounds_per_year, t,
                              locals.contributions, locals.inflation,
                              locals.contribution_timing)

\* display_results, lines 152-200: the summary table.  An exception raised by
\* calculate_compound_growth ends the program before anything is printed.
DisplaySummary ==
    /\ pc = "display"
    /\ LET g == Growth(locals.years)
           total_contributed ==
               RAdd(locals.principal,
                    RMul(locals.contributions, FromInt(locals.years)))
           real_contributed ==
               total_real_contributions(locals.principal, locals.contributions,
                                        locals.inflation, locals.contribution_timing,
                                        locals.years)
       IN  IF g.raised
           THEN /\ pc' = "crash"
                /\ UNCHANGED summary
           ELSE /\ pc' = "breakdown"
                /\ summary' = [total_contributed |-> total_contributed,
                               total_real_contributions |-> real_contributed,
                               nominal_interest |-> RSub(g.nominal, total_contributed),
                               final_nominal |-> g.nominal,
                               real_interest |-> RSub(g.real, real_contributed),
                               final_real |-> g.real]
    /\ UNCHANGED <<args, locals, prompted, asked, lastEntry, errors, breakdown, year>>

\* display_results, lines 207-239: one iteration of the breakdown loop
BreakdownRow ==
    /\ pc = "breakdown"
    /\ year <= locals.years
    /\ LET g == Growth(year)
           total_nominal_contrib ==
               RAdd(locals.principal, RMul(locals.contributions, FromInt(year)))
           real_contrib ==
               total_real_contrib(locals.principal, locals.contributions,
                                  locals.inflation, locals.contribution_timing, year)
       IN  IF g.raised
           THEN /\ pc' = "crash"
                /\ UNCHANGED <<breakdown, year>>
           ELSE /\ breakdown' = Append(breakdown,
                                       [year |-> year,
                                        nominal |-> g.nominal,
                                        real |-> g.real,
                                        nominal_interest |-> RSub(g.nominal, total_nominal_contrib),
                                        total_real_contrib |-> real_contrib,
                                        real_interest |-> RSub(g.real, real_contrib)])
                /\ year' = year + 1
                /\ pc' = pc
    /\ UNCHANGED <<args, locals, prompted, asked, lastEntry, errors, summary>>

\* display_results, lines 241-246, and the return from main()
PrintBreakdown ==
    /\ pc = "breakdown"
    /\ year > locals.years
    /\ pc' = "done"
    /\ UNCHANGED <<args, locals, prompted, asked, lastEntry, errors, summary, breakdown, year>>

Next ==
    \/ UseFlags
    \/ EnterInteractive
    \/ PromptPrincipal
    \/ PromptRate
    \/ PromptCompounds
    \/ PromptYears
    \/ PromptContributions
    \/ PromptInflation
    \/ PromptTiming
    \/ Validate
    \/ DisplaySummary
    \/ BreakdownRow
    \/ PrintBreakdown

Spec == Init /\ [][Next]_vars

\* ================================================================ claims
Prompts ==
    {"prompt_principal", "prompt_rate", "prompt_compounds", "prompt_years",
     "prompt_contributions", "prompt_inflation", "prompt_timing"}

\* display_results has been called
Displayed == pc \in {"display", "breakdown", "done", "crash"}

\* validate_input has returned
Validated == Displayed \/ pc = "exit1"

Interactive == ~AllGiven(args)

Positive(x) == RLt(Zero, x)
NonNegative(x) == RLe(Zero, x)

\* The constraints of the validation contract on the flags, the rate and the
\* inflation in percent units.
FlagsSatisfyContract(a) ==
    /\ Val(a.principal) >= 0
    /\ Val(a.rate) >= 0
    /\ Val(a.compounds) > 0
    /\ Val(a.years) > 0
    /\ a.contributions >= 0
    /\ 0 <= a.inflation /\ a.inflation < 100

\* C1: with all four required flags given, display_results is called only if
\* the flags satisfy the validation contract (inflation below 100 percent),
\* and a run whose flags violate it ends in sys.exit(1).
C1_FlagsValidated ==
    (AllGiven(args) /\ pc # "main" /\ pc # "validate") =>
        /\ Displayed => FlagsSatisfyContract(args)
        /\ ~FlagsSatisfyContract(args) => pc = "exit1"

\* C2: with annualRate = 0, contribution C > 0, END timing and Y > 0 years the
\* growth formula completes without a division by zero and the nominal
\* balance is principal + C * Y.
C2_DegenerateRate ==
    (/\ pc \in {"breakdown", "done", "crash"}
     /\ locals.rate = Zero
     /\ Positive(locals.contributions)
     /\ locals.contribution_timing = End
     /\ locals.years > 0) =>
        /\ pc # "crash"
        /\ summary.final_nominal =
               RAdd(locals.principal, RMul(locals.contributions, FromInt(locals.years)))

\* consecutive rows of the breakdown have strictly increasing nominal balance
RowsIncrease ==
    \A k \in 1 .. Len(breakdown) - 1 :
        RLt(breakdown[k].nominal, breakdown[k + 1].nominal)

Violations(l) ==
    {m \in {MsgPrincipal, MsgRate, MsgCompounds, MsgYears, MsgContributions, MsgInflation} :
        \/ m = MsgPrincipal /\ ~NonNegative(l.principal)
        \/ m = MsgRate /\ ~NonNegative(l.rate)
        \/ m = MsgCompounds /\ ~(l.compounds_per_year >= 1)
        \/ m = MsgYears /\ ~(l.years >= 1)
        \/ m = MsgContributions /\ ~NonNegative(l.contributions)
        \/ m = MsgInflation /\ ~(NonNegative(l.inflation) /\ RLt(l.inflation, FromInt(100)))}

\* C4: validate_input reports exactly one message for each violated
\* constraint, whatever the other constraints, and fails iff some constraint
\* is violated.
C4_AllViolationsReported ==
    Validated =>
        /\ {errors[k] : k \in 1 .. Len(errors)} = Violations(locals)
        /\ Len(errors) = Cardinality(Violations(locals))
        /\ pc = "exit1" <=> Violations(locals) # {}

C4_Witness == pc = "exit1" /\ Len(errors) = 6

\* The plain compound interest balance, one compounding period at a time.
RECURSIVE PlainCompound(_, _, _, _)
PlainCompound(P, r, n, periods) ==
    IF periods = 0 THEN P
    ELSE LET b == PlainCompound(P, r, n, periods - 1)
         IN  RAdd(b, RDiv(RMul(b, r), FromInt(n)))

PlainBalance(k) ==
    PlainCompound(locals.principal, locals.rate, locals.compounds_per_year,
                  locals.compounds_per_year * k)

\* C5: with contribution = 0 the nominal balance is principal *
\* (1 + rate/n)^(n*years) for either timing, and with inflation = 0 the real
\* balance is that same value.
C5_PlainFormula ==
    (Displayed /\ locals.contributions = Zero) =>
        /\ \A k \in 1 .. Len(breakdown) :
            /\ breakdown[k].nominal = PlainBalance(breakdown[k].year)
            /\ locals.inflation = Zero => breakdown[k].real = PlainBalance(breakdown[k].year)
        /\ summary # None =>
            /\ summary.final_nominal = PlainBalance(locals.years)
            /\ locals.inflation = Zero => summary.final_real = PlainBalance(locals.years)

C5_Witness ==
    /\ pc = "done"
    /\ locals.contributions = Zero
    /\ Positive(locals.principal)
    /\ Positive(locals.rate)
    /\ locals.compounds_per_year >= 2
    /\ locals.years >= 2
    /\ locals.contribution_timing = Start
    /\ locals.inflation = Zero

\* C6: with years = 0 the nominal and the real balance both equal the
\* principal, whatever the contribution, inflation and timing: the year-0 row
\* of the breakdown shows the principal.
C6_ZeroHorizon ==
    \A k \in 1 .. Len(breakdown) :
        breakdown[k].year = 0 =>
            /\ breakdown[k].nominal = locals.principal
            /\ breakdown[k].real = locals.principal

C6_Witness ==
    /\ Len(breakdown) >= 1
    /\ breakdown[1].year = 0
    /\ Positive(locals.principal)
    /\ Positive(locals.rate)
    /\ Positive(locals.contributions)
    /\ Positive(locals.inflation)

\* C7: with a required flag missing, all seven values are prompted for and
\* main() uses exactly the prompted values; with all four required flags
\* given no prompt is issued.
C7_PromptOrFlags ==
    /\ (Interactive /\ Validated) => asked = Prompts /\ locals = prompted
    /\ (Interactive /\ pc # "main") => "prompt_principal" \in asked
    /\ ~Interactive => asked = {} /\ lastEntry = None /\ pc \notin Prompts

C7_Witness ==
    /\ Interactive
    /\ pc = "done"
    /\ ~IsNone(args.principal)
    /\ locals.principal # FromInt(Val(args.principal))
    /\ locals.contributions # FromInt(args.contributions)
    /\ locals.inflation # Percent(args.inflation)
    /\ locals.contribution_timing # args.timing

\* an entry that is not a number, or not a whole number where one is asked for
NotANumber(e) == e.kind \in {"malformed", "empty"}
NotAWholeNumber(e) == NotANumber(e) \/ e.val[2] > 1

\* C8: a malformed entry for principal, rate, compounds, years or
\* contributions leaves the program at the same prompt; an empty or
\* unparsable entry at the inflation prompt sets inflation to 0 and moves on
\* to the timing prompt.
C8_Reprompt ==
    [][/\ (pc \in {"prompt_principal", "prompt_rate", "prompt_contributions"}
           /\ NotANumber(lastEntry')) => pc' = pc
       /\ (pc \in {"prompt_compounds", "prompt_years"}
           /\ NotAWholeNumber(lastEntry')) => pc' = pc
       /\ (pc = "prompt_inflation" /\ NotANumber(lastEntry')) =>
              pc' = "prompt_timing" /\ prompted'.inflation = Zero]_vars

C8_Witness ==
    /\ pc = "prompt_compounds"
    /\ lastEntry = OneAndAHalf
    /\ IsNone(prompted.compounds_per_year)

\* sum of q^0 .. q^(m-1)
RECURSIVE Geometric(_, _)
Geometric(q, m) == IF m = 0 THEN Zero ELSE RAdd(One, RMul(q, Geometric(q, m - 1)))

\* principal + sum over y = 1..k of contribution / (1 + inflation)^yearsAgo
RealTotal(k) ==
    LET q == RDiv(One, RAdd(One, locals.inflation))
        s == IF locals.contribution_timing = Start
             THEN RMul(q, Geometric(q, k))
             ELSE Geometric(q, k)
    IN  RAdd(locals.principal, RMul(locals.contributions, s))

\* C9: the real contribution total of the row of year k is principal + the
\* sum over y = 1..k of contribution / (1 + inflation)^yearsAgo, yearsAgo
\* being y for START and y - 1 for END (the principal when contribution = 0
\* or k = 0), and the summary's total is the total of the row k = years.
C9_RealContributions ==
    /\ \A k \in 1 .. Len(breakdown) :
        /\ breakdown[k].total_real_contrib = RealTotal(breakdown[k].year)
        /\ (locals.contributions = Zero \/ breakdown[k].year = 0) =>
               breakdown[k].total_real_contrib = locals.principal
    /\ pc = "done" =>
           summary.total_real_contributions = breakdown[locals.years + 1].total_real_contrib

C9_Witness ==
    /\ pc = "done"
    /\ locals.years >= 2
    /\ Positive(locals.contributions)
    /\ Positive(locals.inflation)
    /\ locals.contribution_timing = End

====
